---- MODULE Spec2Model ----
(***************************************************************************)
(* Model of two Cortex XSOAR content items:                                *)
(*   Packs/SymantecDLP/Integrations/SymantecDLPV2/SymantecDLPV2.py         *)
(*   Packs/Decoders/Scripts/DecodersHex/DecodersHex.py                     *)
(*                                                                         *)
(* Timestamps are strings in the source and are compared with Python's     *)
(* string order.  They are modelled as naturals: 0 is the empty string ''  *)
(* (falsy, smaller than every other string) and 1..MaxTime are timestamps  *)
(* of one fixed-width format, on which string order is time order.         *)
(* A DemistoException is modelled by the set of tokens its message         *)
(* contains; the empty set means that nothing was raised.                  *)
(***************************************************************************)
EXTENDS Integers, Sequences, FiniteSets, TLC

MaxIncidents == 2
MaxTime == 3
MaxBytes == 3

MAX_PAGE_SIZE == 50

IncidentIds == 9 .. (8 + MaxIncidents)
Times == 1 .. MaxTime

VARIABLES
    params,       \* demisto.params(): first_fetch, max_fetch, isFetch
    vendor,       \* the vendor's incidents: incidentId -> creationDate (0: no such incident)
    last_run,     \* the host's last-run dict, a set of <<key, value>> pairs
    created,      \* incidentId -> number of times the host received it (demisto.incidents)
    command,      \* demisto.command() of the last invocation
    last_update_time, \* fetch_incidents: last_update_time before the list request
    response,     \* fetch_incidents: incidents_data_list of the last invocation
    requests,     \* the HTTP requests the last invocation issued, in order
    incidents,    \* what the last invocation handed to demisto.incidents
    returned,     \* what the last invocation handed to return_results
    error,        \* the exception that reached main's handler (return_error)
    demisto_args, \* demisto.args() of the invocation
    patched,      \* the vendor: the update bodies it has applied, in order
    hex_bytes,    \* DecodersHex: the byte sequence the input was encoded from
    hex_args,     \* DecodersHex: demisto.args()
    hex_result    \* DecodersHex: outcome of decoders_hex_command

dlp_vars == <<params, vendor, last_run, created, command, last_update_time, response,
              requests, incidents, returned, error>>
hex_vars == <<hex_bytes, hex_args, hex_result>>
cmd_vars == <<demisto_args, patched>>
vars == <<params, vendor, last_run, created, command, last_update_time, response,
          requests, incidents, returned, error, demisto_args, patched,
          hex_bytes, hex_args, hex_result>>

----------------------------------------------------------------------------
(* HTTP outcomes *)

Unauthorized == {"401", "Unauthorized"}
Forbidden == {"403", "Forbidden"}
ServerError == {"500", "Internal Server Error"}
Errors == {Unauthorized, Forbidden, ServerError}

ListKey == <<"incidents", 0>>
RequestKeys == {ListKey} \cup ({"staticAttributes", "editableAttributes"} \X IncidentIds)

(* every request succeeds *)
AllOk == [key \in RequestKeys |-> {}]

(* the list request fails *)
ListFailPlans == {[key \in RequestKeys |-> IF key = ListKey THEN e ELSE {}] : e \in Errors}

(* the list request succeeds; for each incident of ids, at most one of its *)
(* two detail requests fails (the second is not issued when the first fails) *)
DetailPlans(ids) ==
    LET Choice == {<<"none", {}>>} \cup ({"staticAttributes", "editableAttributes"} \X Errors)
    IN {[key \in RequestKeys |->
            IF key[2] \in ids /\ key[1] = d[key[2]][1] THEN d[key[2]][2] ELSE {}]
        : d \in [ids -> Choice]}

NoBody == [limit |-> 0, orderBy |-> "none", filters |-> {}]

----------------------------------------------------------------------------
(* helpers *)

RECURSIVE Digits(_)
Digits(n) == IF n < 10 THEN <<n>> ELSE Append(Digits(n \div 10), n % 10)

RECURSIVE StrLess(_, _)
StrLess(a, b) ==
    IF b = <<>> THEN FALSE
    ELSE IF a = <<>> THEN TRUE
    ELSE IF Head(a) # Head(b) THEN Head(a) < Head(b)
    ELSE StrLess(Tail(a), Tail(b))

(* a time expression given to dateparser: '' , an absolute timestamp, or a *)
(* relative one such as '3 days' *)
Empty == [kind |-> "empty", v |-> 0]
Abs(t) == [kind |-> "abs", v |-> t]
Rel(d) == [kind |-> "rel", v |-> d]

parse_creation_date(creation_date, now) ==
    IF creation_date.kind = "empty" THEN 0
    ELSE IF creation_date.kind = "abs" THEN creation_date.v
    ELSE IF now - creation_date.v < 1 THEN 1 ELSE now - creation_date.v

(* variant: the filter keeps the incidents of the watermark (GE for GT) *)
get_incidents_request_ge(creation_date, limit, order_by) ==
    [limit |-> limit,
     orderBy |-> IF order_by THEN "ASC" ELSE "none",
     filters |-> IF creation_date # 0
                 THEN {[operandOne |-> "creationDate", operator |-> "GE",
                        operandTwoValues |-> creation_date]}
                 ELSE {}]

get_incidents_request(creation_date, limit, order_by) ==
    [limit |-> limit,
     orderBy |-> IF order_by THEN "ASC" ELSE "none",
     filters |-> IF creation_date # 0
                 THEN {[operandOne |-> "creationDate", operator |-> "GT",
                        operandTwoValues |-> creation_date]}
                 ELSE {}]

(* variant: no record is taken for an already fetched one *)
never_already_fetched(last_time, incident_creation_date) == FALSE

is_incident_already_fetched_in_previous_fetch(last_time, incident_creation_date) ==
    last_time # 0 /\ last_time >= incident_creation_date

get_details_unauthorized_incident(incident_data) ==
    [ID |-> incident_data.incidentId,
     creationDate |-> incident_data.creationDate,
     errorMessage |-> "Notice: Incident contains partial data only"]

get_common_incident_details(static_attributes, editable_attributes) ==
    [ID |-> static_attributes.incidentId,
     creationDate |-> static_attributes.infoMap.creationDate,
     policyName |-> static_attributes.infoMap.policyName,
     incidentStatusId |-> editable_attributes.infoMap.incidentStatusId]

(* the vendor's answers to the detail requests of incident id *)
static_attributes_of(id) ==
    [incidentId |-> id,
     infoMap |-> [creationDate |-> vendor[id], policyName |-> "policy"]]

editable_attributes_of(id) ==
    [incidentId |-> id, infoMap |-> [incidentStatusId |-> 1]]

Request(kind, id, data, outcome) ==
    [request |-> kind, incident_id |-> id, data |-> data, outcome |-> outcome]

(* variants of get_incident_details_fetch: the exceptions whose message    *)
(* contains one of the tokens of absorbed (or all, when every is set) give *)
(* the partial-data record, and a failed static request is issued again    *)
(* when retry is set                                                        *)
details_fetch_variant(http, incident, absorbed, every, retry) ==
    LET incident_id == incident.incidentId
        s == http[<<"staticAttributes", incident_id>>]
        e == http[<<"editableAttributes", incident_id>>]
        issued == IF s # {}
                  THEN IF retry
                       THEN <<Request("staticAttributes", incident_id, NoBody, s),
                              Request("staticAttributes", incident_id, NoBody, s)>>
                       ELSE <<Request("staticAttributes", incident_id, NoBody, s)>>
                  ELSE <<Request("staticAttributes", incident_id, NoBody, s),
                         Request("editableAttributes", incident_id, NoBody, e)>>
        raised == IF s # {} THEN s ELSE e
    IN IF raised = {}
       THEN [requests |-> issued, error |-> {},
             incident_details |-> get_common_incident_details(
                 static_attributes_of(incident_id), editable_attributes_of(incident_id))]
       ELSE IF every \/ absorbed \cap raised # {}
       THEN [requests |-> issued, error |-> {},
             incident_details |-> get_details_unauthorized_incident(incident)]
       ELSE [requests |-> issued, error |-> raised, incident_details |-> {}]

details_fetch_raising_401(http, incident) ==
    details_fetch_variant(http, incident, {}, FALSE, FALSE)
details_fetch_absorbing_all(http, incident) ==
    details_fetch_variant(http, incident, {}, TRUE, FALSE)
details_fetch_absorbing_403(http, incident) ==
    details_fetch_variant(http, incident, {"401", "403"}, FALSE, FALSE)
details_fetch_retrying(http, incident) ==
    details_fetch_variant(http, incident, {"401"}, FALSE, TRUE)

(* get_incident_details_fetch: the requests it issues, the details it      *)
(* returns and the exception it raises ({}: none)                           *)
get_incident_details_fetch(http, incident) ==
    LET incident_id == incident.incidentId
        s == http[<<"staticAttributes", incident_id>>]
        e == http[<<"editableAttributes", incident_id>>]
        issued == IF s # {}
                  THEN <<Request("staticAttributes", incident_id, NoBody, s)>>
                  ELSE <<Request("staticAttributes", incident_id, NoBody, s),
                         Request("editableAttributes", incident_id, NoBody, e)>>
        raised == IF s # {} THEN s ELSE e
    IN IF raised = {}
       THEN [requests |-> issued, error |-> {},
             incident_details |-> get_common_incident_details(
                 static_attributes_of(incident_id), editable_attributes_of(incident_id))]
       ELSE IF "401" \in raised
       THEN [requests |-> issued, error |-> {},
             incident_details |-> get_details_unauthorized_incident(incident)]
       ELSE [requests |-> issued, error |-> raised, incident_details |-> {}]

(* the for loop of fetch_incidents from record k on; st carries the locals *)
(* last_update_time and incidents, the requests issued and the exception   *)
RECURSIVE fetch_loop(_, _, _, _)
fetch_loop(incidents_data_list, http, k, st) ==
    IF k > Len(incidents_data_list) THEN st
    ELSE
      LET incident_data == incidents_data_list[k]
          incident_id == incident_data.incidentId
          incident_creation_time == incident_data.creationDate
      IN IF is_incident_already_fetched_in_previous_fetch(st.last_update_time,
                                                          incident_creation_time)
         THEN fetch_loop(incidents_data_list, http, k + 1, st)
         ELSE
           LET d == get_incident_details_fetch(http, incident_data)
               incident == [rawJSON |-> d.incident_details,
                            name |-> Digits(incident_id),
                            occurred |-> parse_creation_date(Abs(incident_creation_time), 0)]
           IN IF d.error # {}
              THEN [st EXCEPT !.requests = st.requests \o d.requests, !.error = d.error]
              ELSE fetch_loop(incidents_data_list, http, k + 1,
                     [last_update_time |->
                          IF incident_creation_time =
                             incidents_data_list[Len(incidents_data_list)].creationDate
                          THEN incident_creation_time ELSE st.last_update_time,
                      incidents |-> Append(st.incidents, incident),
                      requests |-> st.requests \o d.requests,
                      error |-> {}])

(* sorted(incidents, key=lambda d: d['name']): a stable sort by the name   *)
(* string 'Symantec DLP Incident ID <id>', whose constant prefix is left   *)
(* out of the model                                                         *)
RECURSIVE insert_by_name(_, _)
insert_by_name(sorted_list, x) ==
    IF sorted_list = <<>> THEN <<x>>
    ELSE IF StrLess(x.name, Head(sorted_list).name) THEN <<x>> \o sorted_list
    ELSE <<Head(sorted_list)>> \o insert_by_name(Tail(sorted_list), x)

RECURSIVE sorted_by_name(_)
sorted_by_name(l) ==
    IF l = <<>> THEN <<>>
    ELSE insert_by_name(sorted_by_name(SubSeq(l, 1, Len(l) - 1)), l[Len(l)])

(* variant: every poll starts from first_fetch *)
first_update_time_of_first_run(fetch_time, run, now) ==
    parse_creation_date(fetch_time, now)

(* fetch_incidents, lines 806-811: where the poll starts from *)
first_update_time(fetch_time, run, now) ==
    IF run # {}
    THEN (CHOOSE p \in run : p[1] = "last_incident_creation_time")[2]
    ELSE parse_creation_date(fetch_time, now)

(* fetch_incidents: http gives the outcome of each request, vendor_list the *)
(* incidents of the list response.  set_last_run is <<>> when setLastRun is *)
(* not called, and result is <<>> for None.                                 *)
fetch_incidents(http, vendor_list, fetch_time, fetch_limit, run, is_test, now) ==
    LET start == first_update_time(fetch_time, run, now)
        data == get_incidents_request(start, fetch_limit, TRUE)
        list_request == Request("incidents", 0, data, http[ListKey])
    IN IF http[ListKey] # {}
       THEN [requests |-> <<list_request>>, error |-> http[ListKey],
             set_last_run |-> <<>>, result |-> <<>>]
       ELSE
         LET st == fetch_loop(vendor_list, http, 1,
                      [last_update_time |-> start, incidents |-> <<>>,
                       requests |-> <<list_request>>, error |-> {}])
         IN IF st.error # {}
            THEN [requests |-> st.requests, error |-> st.error,
                  set_last_run |-> <<>>, result |-> <<>>]
            ELSE IF is_test
            THEN [requests |-> st.requests, error |-> {},
                  set_last_run |-> <<>>, result |-> <<>>]
            ELSE [requests |-> st.requests, error |-> {},
                  set_last_run |-> <<{<<"last_incident_creation_time", st.last_update_time>>}>>,
                  result |-> sorted_by_name(st.incidents)]

(* Python's int(text) on a string, given as the sequence of its            *)
(* characters: an optional sign followed by at least one decimal digit;    *)
(* any other string raises ValueError                                       *)
DigitChars == <<"0", "1", "2", "3", "4", "5", "6", "7", "8", "9">>
IsDigitChar(c) == \E k \in 1 .. 10 : DigitChars[k] = c
DigitValue(c) == (CHOOSE k \in 1 .. 10 : DigitChars[k] = c) - 1

isdigit(text) == text # <<>> /\ \A k \in 1 .. Len(text) : IsDigitChar(text[k])

int_literal(text) ==
    \/ isdigit(text)
    \/ text # <<>> /\ text[1] \in {"-", "+"} /\ isdigit(Tail(text))

RECURSIVE digits_value(_)
digits_value(text) ==
    IF text = <<>> THEN 0
    ELSE 10 * digits_value(SubSeq(text, 1, Len(text) - 1)) + DigitValue(text[Len(text)])

int(text) ==
    IF text[1] = "-" THEN 0 - digits_value(Tail(text))
    ELSE IF text[1] = "+" THEN digits_value(Tail(text))
    ELSE digits_value(text)

FetchLimitError == {"Value for fetch limit must be an integer."}

(* variant: the fetch limit is not capped *)
main_fetch_limit_uncapped(max_fetch) == int(max_fetch)

(* main, lines 874-875, for a max_fetch that int() accepts *)
main_fetch_limit(max_fetch) ==
    LET fetch_limit == int(max_fetch)
    IN IF fetch_limit > MAX_PAGE_SIZE THEN MAX_PAGE_SIZE ELSE fetch_limit

----------------------------------------------------------------------------
(* the vendor *)

(* The incidents that pass the request's creationDate filter.  The source   *)
(* expects the incident of the boundary to come back ("Skipping last        *)
(* incident from last cycle if fetched again"), so the vendor may or may    *)
(* not include the incidents whose creationDate equals the filter value.    *)
Matching(data, inclusive) ==
    {i \in IncidentIds :
        /\ vendor[i] # 0
        /\ \A f \in data.filters :
              \/ vendor[i] > f.operandTwoValues
              \/ inclusive /\ vendor[i] = f.operandTwoValues}

(* the lists the vendor may answer with data: the first data.limit matching *)
(* incidents, in ascending creationDate when the request orders them, ties *)
(* in any order                                                             *)
VendorResponses(data, inclusive) ==
    LET M == Matching(data, inclusive)
        n == IF Cardinality(M) < data.limit THEN Cardinality(M) ELSE data.limit
        Orders == {s \in [1 .. n -> M] :
                     /\ \A a, b \in 1 .. n : a # b => s[a] # s[b]
                     /\ data.orderBy = "ASC" =>
                          /\ \A a, b \in 1 .. n : a < b => vendor[s[a]] <= vendor[s[b]]
                          /\ \A i \in M : (\A a \in 1 .. n : s[a] # i) =>
                                 \A a \in 1 .. n : vendor[s[a]] <= vendor[i]}
    IN {[k \in 1 .. n |-> [incidentId |-> s[k], creationDate |-> vendor[s[k]]]] : s \in Orders}

VendorAnswers(data) == VendorResponses(data, FALSE) \cup VendorResponses(data, TRUE)

(* the times an invocation may run at; the time only matters to a relative *)
(* first_fetch on a first run                                               *)
InvocationTimes(fetch_time, run) ==
    IF run = {} /\ fetch_time.kind = "rel" THEN Times ELSE {MaxTime}

----------------------------------------------------------------------------
(* test-module *)

AuthorizationError == "Authorization Error: make sure username and password are correctly set"

(* variant: only Unauthorized is taken for an authorization failure *)
test_module_unauthorized_only(http, vendor_list, prm, fetch_limit, now) ==
    LET probe == IF prm.isFetch
                 THEN fetch_incidents(http, vendor_list, prm.first_fetch, fetch_limit,
                                      {}, TRUE, now)
                 ELSE [requests |-> <<Request("incidents", 0,
                                       get_incidents_request(0, MAX_PAGE_SIZE, FALSE),
                                       http[ListKey])>>,
                       error |-> http[ListKey], set_last_run |-> <<>>, result |-> <<>>]
    IN IF probe.error = {}
       THEN [requests |-> probe.requests, message |-> "ok", error |-> {},
             set_last_run |-> probe.set_last_run]
       ELSE IF "Unauthorized" \in probe.error
       THEN [requests |-> probe.requests, message |-> AuthorizationError, error |-> {},
             set_last_run |-> probe.set_last_run]
       ELSE [requests |-> probe.requests, message |-> "", error |-> probe.error,
             set_last_run |-> probe.set_last_run]

(* variant: the fetch probe runs as a poll (is_test not set) *)
test_module_polling(http, vendor_list, prm, fetch_limit, now) ==
    LET probe == IF prm.isFetch
                 THEN fetch_incidents(http, vendor_list, prm.first_fetch, fetch_limit,
                                      {}, FALSE, now)
                 ELSE [requests |-> <<Request("incidents", 0,
                                       get_incidents_request(0, MAX_PAGE_SIZE, FALSE),
                                       http[ListKey])>>,
                       error |-> http[ListKey], set_last_run |-> <<>>, result |-> <<>>]
    IN IF probe.error = {}
       THEN [requests |-> probe.requests, message |-> "ok", error |-> {},
             set_last_run |-> probe.set_last_run]
       ELSE IF "Forbidden" \in probe.error \/ "Unauthorized" \in probe.error
       THEN [requests |-> probe.requests, message |-> AuthorizationError, error |-> {},
             set_last_run |-> probe.set_last_run]
       ELSE [requests |-> probe.requests, message |-> "", error |-> probe.error,
             set_last_run |-> probe.set_last_run]

(* test_module: message is what it returns, error the exception it re-raises *)
test_module(http, vendor_list, prm, fetch_limit, now) ==
    LET probe == IF prm.isFetch
                 THEN fetch_incidents(http, vendor_list, prm.first_fetch, fetch_limit,
                                      {}, TRUE, now)
                 ELSE [requests |-> <<Request("incidents", 0,
                                       get_incidents_request(0, MAX_PAGE_SIZE, FALSE),
                                       http[ListKey])>>,
                       error |-> http[ListKey], set_last_run |-> <<>>, result |-> <<>>]
    IN IF probe.error = {}
       THEN [requests |-> probe.requests, message |-> "ok", error |-> {},
             set_last_run |-> probe.set_last_run]
       ELSE IF "Forbidden" \in probe.error \/ "Unauthorized" \in probe.error
       THEN [requests |-> probe.requests, message |-> AuthorizationError, error |-> {},
             set_last_run |-> probe.set_last_run]
       ELSE [requests |-> probe.requests, message |-> "", error |-> probe.error,
             set_last_run |-> probe.set_last_run]

----------------------------------------------------------------------------
(* state machine *)

FetchTimes == {Empty, Rel(1)}
MaxFetchValues == {<<"1">>, <<"2">>, <<"5", "1">>}
LastRuns == {{}} \cup {{<<"last_incident_creation_time", t>>} : t \in 0 .. MaxTime}

IdsOf(list) == {list[k].incidentId : k \in 1 .. Len(list)}
Count(list, id) == Cardinality({k \in 1 .. Len(list) : list[k].rawJSON.ID = id})

NoCommand ==
    /\ command = "none"
    /\ last_update_time = 0
    /\ response = <<>>
    /\ requests = <<>>
    /\ incidents = <<>>
    /\ returned = ""
    /\ error = {}
    /\ demisto_args = <<>>
    /\ patched = <<>>

NoHex ==
    /\ hex_bytes = <<>>
    /\ hex_args = [encoded |-> <<>>, to |-> "None"]
    /\ hex_result = [status |-> "none"]

(* a polling series: a new instance, no incident at the vendor yet *)
Init ==
    /\ params \in [first_fetch : FetchTimes, max_fetch : MaxFetchValues, isFetch : {TRUE}]
    /\ vendor = [i \in IncidentIds |-> 0]
    /\ last_run = {}
    /\ created = [i \in IncidentIds |-> 0]
    /\ NoCommand
    /\ NoHex

(* the vendor records a new incident *)
AddIncident ==
    \E i \in IncidentIds, t \in Times :
        /\ vendor[i] = 0
        /\ vendor' = [vendor EXCEPT ![i] = t]
        /\ UNCHANGED <<params, last_run, created, command, last_update_time, response,
                       requests, incidents, returned, error, cmd_vars, hex_vars>>

SeriesPlans(ids) == {AllOk} \cup ListFailPlans
FaultPlans(ids) == ListFailPlans \cup DetailPlans(ids)
TestPlans(ids) == IF params.isFetch THEN FaultPlans(ids) ELSE {AllOk} \cup ListFailPlans

(* main, command fetch-incidents (lines 896-900 and 915-917); with faults  *)
(* any request may fail, without only the list request may                  *)
FetchIncidentsWith(faults) ==
    /\ int_literal(params.max_fetch)
    /\ \E now \in InvocationTimes(params.first_fetch, last_run) :
      LET fetch_limit == main_fetch_limit(params.max_fetch)
          start == first_update_time(params.first_fetch, last_run, now)
          data == get_incidents_request(start, fetch_limit, TRUE)
      IN \E vendor_list \in VendorAnswers(data) :
         \E http \in (IF faults THEN FaultPlans(IdsOf(vendor_list))
                                  ELSE SeriesPlans(IdsOf(vendor_list))) :
           LET r == fetch_incidents(http, vendor_list, params.first_fetch, fetch_limit,
                                    last_run, FALSE, now)
           IN /\ command' = "fetch-incidents"
              /\ last_update_time' = start
              /\ response' = IF http[ListKey] = {} THEN vendor_list ELSE <<>>
              /\ requests' = r.requests
              /\ error' = r.error
              /\ returned' = ""
              /\ last_run' = IF r.set_last_run # <<>> THEN r.set_last_run[1] ELSE last_run
              /\ incidents' = IF r.error = {} THEN r.result ELSE <<>>
              /\ created' = IF r.error = {}
                            THEN [i \in IncidentIds |->
                                    IF created[i] + Count(r.result, i) > 2 THEN 2
                                    ELSE created[i] + Count(r.result, i)]
                            ELSE created
              /\ UNCHANGED <<params, vendor, cmd_vars, hex_vars>>

FetchIncidents == FetchIncidentsWith(FALSE)

Next == AddIncident \/ FetchIncidents

Spec == Init /\ [][Next]_vars

(* one invocation from any state the instance can be in, with every        *)
(* combination of request failures                                          *)
InitAny ==
    /\ params \in [first_fetch : FetchTimes, max_fetch : MaxFetchValues, isFetch : {TRUE}]
    /\ vendor \in [IncidentIds -> 0 .. MaxTime]
    /\ last_run \in LastRuns
    /\ created = [i \in IncidentIds |-> 0]
    /\ NoCommand
    /\ NoHex

FetchIncidentsFaulty ==
    /\ command = "none"
    /\ FetchIncidentsWith(TRUE)

(* main, command test-module (lines 892-895 and 915-917) *)
TestModule ==
    /\ command = "none"
    /\ int_literal(params.max_fetch)
    /\ \E now \in InvocationTimes(params.first_fetch, {}) :
         LET fetch_limit == main_fetch_limit(params.max_fetch)
             start == first_update_time(params.first_fetch, {}, now)
             data == IF params.isFetch
                     THEN get_incidents_request(start, fetch_limit, TRUE)
                     ELSE get_incidents_request(0, MAX_PAGE_SIZE, FALSE)
         IN \E vendor_list \in VendorAnswers(data) :
            \E http \in TestPlans(IdsOf(vendor_list)) :
              LET r == test_module(http, vendor_list, params, fetch_limit, now)
              IN /\ command' = "test-module"
                 /\ last_update_time' = IF params.isFetch THEN start ELSE 0
                 /\ response' = IF http[ListKey] = {} THEN vendor_list ELSE <<>>
                 /\ requests' = r.requests
                 /\ error' = r.error
                 /\ returned' = r.message
                 /\ last_run' = IF r.set_last_run # <<>> THEN r.set_last_run[1] ELSE last_run
                 /\ incidents' = <<>>
                 /\ UNCHANGED <<params, vendor, created, cmd_vars, hex_vars>>

NextFaults == FetchIncidentsFaulty
SpecFaults == InitAny /\ [][NextFaults]_vars

InitTest ==
    /\ params \in [first_fetch : FetchTimes, max_fetch : MaxFetchValues, isFetch : BOOLEAN]
    /\ vendor \in [IncidentIds -> 0 .. MaxTime]
    /\ last_run \in LastRuns
    /\ created = [i \in IncidentIds |-> 0]
    /\ NoCommand
    /\ NoHex

NextTest == TestModule
SpecTest == InitTest /\ [][NextTest]_vars

----------------------------------------------------------------------------
(* properties of a polling series *)

Stored == (CHOOSE p \in last_run : p[1] = "last_incident_creation_time")[2]
FetchOk == command = "fetch-incidents" /\ error = {}
EmittedIds == {incidents[k].rawJSON.ID : k \in 1 .. Len(incidents)}
MaxOf(S) == CHOOSE m \in S : \A x \in S : x <= m

(* C1: over the polls of a series the stored watermark never decreases,    *)
(* and a successful poll stores a value that is not earlier than the value *)
(* it started with.                                                         *)
C1_WatermarkMonotone ==
    [][/\ last_run # {} => last_run' # {} /\ Stored' >= Stored
       /\ FetchOk' => last_run' # {} /\ Stored' >= last_update_time']_vars

(* a later poll of a series has moved the watermark forward *)
C1_Witness ==
    /\ FetchOk
    /\ last_update_time # 0
    /\ Stored > last_update_time
    /\ \E i \in IncidentIds : created[i] = 1 /\ i \notin EmittedIds

(* C2: a poll never emits a record whose creationDate is less than or      *)
(* equal to the watermark it started with, and the host receives no        *)
(* incident more than once.                                                 *)
C2_NoIncidentTwice ==
    /\ FetchOk =>
         \A k \in 1 .. Len(response) :
            response[k].creationDate <= last_update_time =>
               response[k].incidentId \notin EmittedIds
    /\ \A i \in IncidentIds : created[i] <= 1

(* the vendor sent an incident of the watermark again, after an earlier    *)
(* poll had delivered it, and the poll skipped it while emitting another   *)
C2_Witness ==
    /\ FetchOk
    /\ incidents # <<>>
    /\ \E k \in 1 .. Len(response) :
          /\ response[k].creationDate <= last_update_time
          /\ created[response[k].incidentId] = 1
          /\ response[k].incidentId \notin EmittedIds

CreationDateFilter(t) ==
    {[operandOne |-> "creationDate", operator |-> "GT", operandTwoValues |-> t]}

(* what a successful poll stores: the greatest creationDate it emitted, or *)
(* the watermark it started with when it emitted nothing                   *)
StoresLastProcessed ==
    FetchOk =>
       /\ last_run # {}
       /\ Stored = IF incidents = <<>> THEN last_update_time
                   ELSE MaxOf({incidents[k].rawJSON.creationDate : k \in 1 .. Len(incidents)})

(* a step of a poll, which never changes the vendor's incidents *)
PollStep == vendor' = vendor /\ command' = "fetch-incidents"

(* C3 as claimed: a successful poll stores the creationDate of the last    *)
(* incident it processed (or the watermark it started with), and the next  *)
(* poll sends exactly the stored value as a GT filter on creationDate.     *)
C3_Original ==
    [][/\ StoresLastProcessed'
       /\ PollStep /\ last_run # {} =>
            requests'[1].data.filters = CreationDateFilter(Stored)]_vars

(* C3 amended: as claimed when the stored value is not empty; an empty     *)
(* stored value (empty first_fetch, nothing emitted so far) makes the next *)
(* poll send no creationDate filter at all.                                 *)
C3_StoredWatermarkIsNextFilter ==
    [][/\ StoresLastProcessed'
       /\ PollStep /\ last_run # {} =>
            /\ requests'[1].request = "incidents"
            /\ requests'[1].data.orderBy = "ASC"
            /\ requests'[1].data.filters =
                  IF Stored # 0 THEN CreationDateFilter(Stored) ELSE {}]_vars

(* a poll that started from the watermark an earlier poll stored, sent it  *)
(* as the filter and stored the creationDate of the incident it emitted    *)
C3_Witness ==
    /\ FetchOk
    /\ incidents # <<>>
    /\ \E i \in IncidentIds : created[i] = 1 /\ i \notin EmittedIds
    /\ requests[1].data.filters = CreationDateFilter(last_update_time)
    /\ Stored = response[Len(response)].creationDate
    /\ Stored > last_update_time

(* C10: a successful poll emits every record of the response whose         *)
(* creationDate is later than the watermark the poll started with.         *)
C10_EmitsEveryNewRecord ==
    FetchOk =>
       \A k \in 1 .. Len(response) :
          response[k].creationDate > last_update_time =>
             response[k].incidentId \in EmittedIds

----------------------------------------------------------------------------
(* properties of one invocation under request failures *)

PartialDataNotice == "Notice: Incident contains partial data only"

ListRecord(id) == CHOOSE rec \in {response[k] : k \in 1 .. Len(response)} : rec.incidentId = id

(* the partial-data record of an incident: fields of the list response only *)
PartialRecord(id) ==
    [ID |-> ListRecord(id).incidentId,
     creationDate |-> ListRecord(id).creationDate,
     errorMessage |-> PartialDataNotice]

(* the incidents whose detail request failed with outcome e *)
DetailFailed(e) ==
    {requests[k].incident_id : k \in {j \in 2 .. Len(requests) : requests[j].outcome = e}}

(* the same poll with every request succeeding *)
CleanPoll ==
    fetch_incidents(AllOk, response, params.first_fetch, main_fetch_limit(params.max_fetch),
                    {<<"last_incident_creation_time", last_update_time>>}, FALSE, MaxTime)

(* C4: when the only failures of a poll are HTTP 401 on detail requests,   *)
(* the poll succeeds, emits the incidents of a poll without failures, those *)
(* of the failed requests as partial-data records made of the list fields  *)
(* and the notice, and stores the watermark of a poll without failures.    *)
C4_UnauthorizedDetailsGivePartialRecord ==
    (/\ command = "fetch-incidents"
     /\ requests[1].outcome = {}
     /\ \A k \in 1 .. Len(requests) : requests[k].outcome \in {{}, Unauthorized})
    => /\ error = {}
       /\ last_run = CleanPoll.set_last_run[1]
       /\ Len(incidents) = Len(CleanPoll.result)
       /\ \A k \in 1 .. Len(incidents) :
             incidents[k] =
                IF CleanPoll.result[k].rawJSON.ID \in DetailFailed(Unauthorized)
                THEN [CleanPoll.result[k] EXCEPT
                         !.rawJSON = PartialRecord(CleanPoll.result[k].rawJSON.ID)]
                ELSE CleanPoll.result[k]

(* a 401 on the details of one incident, full details for another, and the *)
(* watermark moved to the last record                                       *)
C4_Witness ==
    /\ FetchOk
    /\ DetailFailed(Unauthorized) # {}
    /\ \E k \in 1 .. Len(incidents) : "errorMessage" \in DOMAIN incidents[k].rawJSON
    /\ \E k \in 1 .. Len(incidents) : "policyName" \in DOMAIN incidents[k].rawJSON
    /\ Stored = response[Len(response)].creationDate
    /\ Stored > last_update_time

(* C5: a poll in which a request fails with an error that is not a 401     *)
(* raises that error, leaves the last run as it was and hands no incident  *)
(* to the host.                                                             *)
C5_OtherFailuresPropagate ==
    [][(/\ command' = "fetch-incidents"
        /\ \E k \in 1 .. Len(requests') :
              requests'[k].outcome # {} /\ "401" \notin requests'[k].outcome)
       => /\ error' = requests'[Len(requests')].outcome
          /\ error' # {}
          /\ last_run' = last_run
          /\ created' = created
          /\ incidents' = <<>>]_vars

(* a detail request failed with a server error after another incident had  *)
(* been processed *)
C5_Witness ==
    /\ command = "fetch-incidents"
    /\ error = ServerError
    /\ Len(requests) >= 4
    /\ requests[Len(requests)].request = "editableAttributes"
    /\ incidents = <<>>

(* C6 as claimed: a 401 or a 403 on a detail request gives a partial-data  *)
(* record instead of failing the poll.                                      *)
C6_Original ==
    (/\ command = "fetch-incidents"
     /\ requests[1].outcome = {}
     /\ \A k \in 1 .. Len(requests) : requests[k].outcome \in {{}, Unauthorized, Forbidden})
    => /\ error = {}
       /\ \A i \in DetailFailed(Unauthorized) \cup DetailFailed(Forbidden) :
             \E k \in 1 .. Len(incidents) : incidents[k].rawJSON = PartialRecord(i)

(* C6 amended: only a 401 on a detail request gives a partial-data record; *)
(* a 403 on a detail request fails the poll with that error.                *)
C6_Only401GivesPartialRecord ==
    (/\ command = "fetch-incidents"
     /\ requests[1].outcome = {}
     /\ \A k \in 1 .. Len(requests) : requests[k].outcome \in {{}, Unauthorized, Forbidden})
    => /\ DetailFailed(Forbidden) = {} =>
            /\ error = {}
            /\ \A i \in DetailFailed(Unauthorized) :
                  \E k \in 1 .. Len(incidents) : incidents[k].rawJSON = PartialRecord(i)
       /\ DetailFailed(Forbidden) # {} => error = Forbidden /\ incidents = <<>>

(* a poll that absorbed a 401 on one incident and failed on a 403 on the   *)
(* next *)
C6_Witness ==
    /\ command = "fetch-incidents"
    /\ DetailFailed(Unauthorized) # {}
    /\ DetailFailed(Forbidden) # {}
    /\ error = Forbidden

(* the exception that leaves the probe of test_module: the outcome of the  *)
(* last request, unless the fetch probe absorbed it (a 401 on a detail     *)
(* request, see C4)                                                         *)
ProbeError ==
    LET last == requests[Len(requests)]
    IN IF last.request # "incidents" /\ "401" \in last.outcome THEN {} ELSE last.outcome

(* C7: test-module returns 'ok' when its probe raises nothing, returns the *)
(* authorization message when the probe raises an error that reports       *)
(* Unauthorized or Forbidden, and re-raises every other error.              *)
C7_TestModuleMapsAuthorizationFailure ==
    command = "test-module" =>
       /\ ProbeError = {} => returned = "ok" /\ error = {}
       /\ ProbeError \in {Unauthorized, Forbidden} =>
             returned = AuthorizationError /\ error = {}
       /\ ProbeError \notin {{}, Unauthorized, Forbidden} =>
             returned = "" /\ error = ProbeError

(* the fetch probe failed on a 403 of a detail request and test-module     *)
(* returned the authorization message *)
C7_Witness ==
    /\ command = "test-module"
    /\ params.isFetch
    /\ Len(requests) >= 2
    /\ ProbeError = Forbidden
    /\ returned = AuthorizationError

CountRequests(kind, id) ==
    Cardinality({k \in 1 .. Len(requests) :
                    requests[k].request = kind /\ requests[k].incident_id = id})

(* C8: a poll issues exactly one list request, at most one static and one  *)
(* editable request per record of the response and none for other          *)
(* incidents, and issues no request again after it failed.                  *)
C8_NoRetry ==
    command = "fetch-incidents" =>
       /\ CountRequests("incidents", 0) = 1
       /\ \A k \in 1 .. Len(requests) :
             requests[k].request # "incidents" =>
                requests[k].incident_id \in {response[j].incidentId : j \in 1 .. Len(response)}
       /\ \A i \in IncidentIds :
             /\ CountRequests("staticAttributes", i) <= 1
             /\ CountRequests("editableAttributes", i) <= 1
       /\ \A k \in 1 .. Len(requests) : \A j \in (k + 1) .. Len(requests) :
             requests[k].outcome # {} =>
                <<requests[j].request, requests[j].incident_id>> #
                <<requests[k].request, requests[k].incident_id>>

(* a poll went on after a failed request: a 401 on the static attributes   *)
(* of one incident, then the requests of the next incident *)
C8_Witness ==
    /\ command = "fetch-incidents"
    /\ Len(requests) >= 3
    /\ requests[2].outcome = Unauthorized
    /\ requests[3].incident_id # requests[2].incident_id

----------------------------------------------------------------------------
(* DecodersHex.  A str is a sequence of one-character strings (the hex     *)
(* text) or of code points (the decoded text), bytes a sequence of 0..255. *)

HexLower == <<"0", "1", "2", "3", "4", "5", "6", "7", "8", "9", "a", "b", "c", "d", "e", "f">>
HexUpper == <<"0", "1", "2", "3", "4", "5", "6", "7", "8", "9", "A", "B", "C", "D", "E", "F">>

IsHexDigit(c) == \E v \in 1 .. 16 : HexLower[v] = c \/ HexUpper[v] = c
HexValue(c) == (CHOOSE v \in 1 .. 16 : HexLower[v] = c \/ HexUpper[v] = c) - 1

(* bytes.hex(): two digits per byte, in lower case, upper case, or lower   *)
(* case with a space between the bytes (bytes.hex(' '))                     *)
RECURSIVE HexEncode(_, _)
HexEncode(b, style) ==
    IF b = <<>> THEN <<>>
    ELSE LET digits == IF style = "upper" THEN HexUpper ELSE HexLower
             pair == <<digits[(Head(b) \div 16) + 1], digits[(Head(b) % 16) + 1]>>
         IN IF style = "spaced" /\ Len(b) > 1
            THEN pair \o <<" ">> \o HexEncode(Tail(b), style)
            ELSE pair \o HexEncode(Tail(b), style)

(* bytes.fromhex: white space is skipped between the bytes, each byte is   *)
(* two adjacent hex digits, anything else is a ValueError                   *)
RECURSIVE bytes_fromhex(_)
bytes_fromhex(text) ==
    IF text = <<>> THEN [error |-> "", bytes |-> <<>>]
    ELSE IF Head(text) = " " THEN bytes_fromhex(Tail(text))
    ELSE IF Len(text) >= 2 /\ IsHexDigit(text[1]) /\ IsHexDigit(text[2])
    THEN LET rest == bytes_fromhex(SubSeq(text, 3, Len(text)))
         IN [error |-> rest.error,
             bytes |-> <<16 * HexValue(text[1]) + HexValue(text[2])>> \o rest.bytes]
    ELSE [error |-> "ValueError", bytes |-> <<>>]

IsContinuation(x) == 128 <= x /\ x <= 191

(* the number of bytes of the UTF-8 sequence that starts b, 0 if b does    *)
(* not start with a well-formed sequence                                    *)
utf8_length(b) ==
    LET n == Len(b)
    IN IF b[1] < 128 THEN 1
       ELSE IF 194 <= b[1] /\ b[1] <= 223
       THEN IF n >= 2 /\ IsContinuation(b[2]) THEN 2 ELSE 0
       ELSE IF 224 <= b[1] /\ b[1] <= 239
       THEN IF /\ n >= 3
               /\ IsContinuation(b[2])
               /\ IsContinuation(b[3])
               /\ b[1] = 224 => b[2] >= 160
               /\ b[1] = 237 => b[2] <= 159
            THEN 3 ELSE 0
       ELSE IF 240 <= b[1] /\ b[1] <= 244
       THEN IF /\ n >= 4
               /\ IsContinuation(b[2])
               /\ IsContinuation(b[3])
               /\ IsContinuation(b[4])
               /\ b[1] = 240 => b[2] >= 144
               /\ b[1] = 244 => b[2] <= 143
            THEN 4 ELSE 0
       ELSE 0

utf8_code_point(b, n) ==
    IF n = 1 THEN b[1]
    ELSE IF n = 2 THEN (b[1] - 192) * 64 + (b[2] - 128)
    ELSE IF n = 3 THEN (b[1] - 224) * 4096 + (b[2] - 128) * 64 + (b[3] - 128)
    ELSE (b[1] - 240) * 262144 + (b[2] - 128) * 4096 + (b[3] - 128) * 64 + (b[4] - 128)

RECURSIVE utf8_decode(_)
utf8_decode(b) ==
    IF b = <<>> THEN [error |-> "", text |-> <<>>]
    ELSE LET n == utf8_length(b)
         IN IF n = 0 THEN [error |-> "UnicodeDecodeError", text |-> <<>>]
            ELSE LET rest == utf8_decode(SubSeq(b, n + 1, Len(b)))
                 IN [error |-> rest.error,
                     text |-> <<utf8_code_point(b, n)>> \o rest.text]

(* bytes.decode(to) *)
bytes_decode(b, to) ==
    IF to = "None" THEN [error |-> "TypeError", text |-> <<>>]
    ELSE IF to = "latin-1" THEN [error |-> "", text |-> b]
    ELSE utf8_decode(b)

(* str.encode(to), the encoding that bytes.decode(to) inverts *)
RECURSIVE str_encode(_, _)
str_encode(text, to) ==
    IF text = <<>> THEN <<>>
    ELSE LET c == Head(text)
             first == IF to = "latin-1" \/ c < 128 THEN <<c>>
                      ELSE IF c < 2048 THEN <<192 + (c \div 64), 128 + (c % 64)>>
                      ELSE IF c < 65536
                      THEN <<224 + (c \div 4096), 128 + ((c \div 64) % 64), 128 + (c % 64)>>
                      ELSE <<240 + (c \div 262144), 128 + ((c \div 4096) % 64),
                             128 + ((c \div 64) % 64), 128 + (c % 64)>>
         IN first \o str_encode(Tail(text), to)

(* variant: the bytes are always decoded as UTF-8 *)
decoders_hex_utf8_only(encoded_text, to) ==
    LET raw == bytes_fromhex(encoded_text)
    IN IF raw.error # "" THEN [error |-> raw.error, text |-> <<>>]
       ELSE bytes_decode(raw.bytes, IF to = "None" THEN to ELSE "utf-8")

decoders_hex(encoded_text, to) ==
    LET raw == bytes_fromhex(encoded_text)
    IN IF raw.error # "" THEN [error |-> raw.error, text |-> <<>>]
       ELSE bytes_decode(raw.bytes, to)

decoders_hex_command(args) ==
    IF args.encoded = <<>>
    THEN [status |-> "error", message |-> "Encoded text not specified"]
    ELSE LET result == decoders_hex(args.encoded, args.to)
         IN IF result.error # ""
            THEN [status |-> "error", message |-> result.error]
            ELSE [status |-> "results",
                  outputs |-> [Decoded |-> result.text, Encoded |-> args.encoded,
                               Encoder |-> "HEX", DecodedTo |-> args.to]]

ByteSamples == {65, 195, 169, 226, 130, 172, 255}
Encodings == {"utf-8", "latin-1"}
HexStyles == {"lower", "upper", "spaced"}

RECURSIVE BytesUpTo(_)
BytesUpTo(n) ==
    IF n = 0 THEN {<<>>}
    ELSE BytesUpTo(n - 1) \cup {Append(b, x) : b \in {c \in BytesUpTo(n - 1) : Len(c) = n - 1},
                                                x \in ByteSamples}

(* the script is given the hex text of a byte sequence, with or without an *)
(* encoding to decode to *)
InitHex ==
    /\ hex_bytes \in BytesUpTo(MaxBytes)
    /\ \E style \in HexStyles, to \in Encodings \cup {"None"} :
          hex_args = [encoded |-> HexEncode(hex_bytes, style), to |-> to]
    /\ hex_result = [status |-> "none"]
    /\ params = [first_fetch |-> Empty, max_fetch |-> <<"1">>, isFetch |-> FALSE]
    /\ vendor = [i \in IncidentIds |-> 0]
    /\ last_run = {}
    /\ created = [i \in IncidentIds |-> 0]
    /\ NoCommand

(* DecodersHex.main *)
DecodersHex ==
    /\ hex_result.status = "none"
    /\ hex_result' = decoders_hex_command(hex_args)
    /\ UNCHANGED <<hex_bytes, hex_args, dlp_vars, cmd_vars>>

NextHex == DecodersHex
SpecHex == InitHex /\ [][NextHex]_vars

ValidText(b, to) == to \in Encodings /\ bytes_decode(b, to).error = ""

RoundTrip ==
    /\ decoders_hex(hex_args.encoded, hex_args.to).error = ""
    /\ str_encode(decoders_hex(hex_args.encoded, hex_args.to).text, hex_args.to) = hex_bytes

Reported ==
    /\ hex_result.status = "results"
    /\ hex_result.outputs.Decoded = decoders_hex(hex_args.encoded, hex_args.to).text
    /\ hex_result.outputs.Encoded = hex_args.encoded

(* C9 as claimed: for every byte sequence that is valid text in the chosen *)
(* encoding, decoders_hex returns from its hex text the text that encodes  *)
(* to it, and the command reports that text with the input unchanged.      *)
C9_Original ==
    (hex_result.status # "none" /\ ValidText(hex_bytes, hex_args.to))
    => RoundTrip /\ Reported

(* C9 amended: as claimed for every byte sequence that is not empty; for   *)
(* the empty one decoders_hex returns the empty text and the command fails *)
(* with 'Encoded text not specified'.                                       *)
C9_HexRoundTrip ==
    (hex_result.status # "none" /\ ValidText(hex_bytes, hex_args.to))
    => /\ RoundTrip
       /\ hex_bytes # <<>> => Reported
       /\ hex_bytes = <<>> =>
             hex_result = [status |-> "error", message |-> "Encoded text not specified"]

(* a three-byte UTF-8 character was decoded *)
C9_Witness ==
    /\ hex_result.status = "results"
    /\ hex_args.to = "utf-8"
    /\ Len(hex_bytes) = 3
    /\ Len(hex_result.outputs.Decoded) = 1
    /\ hex_result.outputs.Decoded[1] > 2047

----------------------------------------------------------------------------
(* a polling series over a fixed set of vendor incidents in which every    *)
(* poll succeeds; the host runs fetch-incidents at its fetch interval for  *)
(* as long as the instance is enabled, hence the fairness condition        *)

InitFixed ==
    /\ params \in [first_fetch : FetchTimes, max_fetch : MaxFetchValues, isFetch : {TRUE}]
    /\ vendor \in [IncidentIds -> 0 .. MaxTime]
    /\ last_run = {}
    /\ created = [i \in IncidentIds |-> 0]
    /\ NoCommand
    /\ NoHex

FetchIncidentsOk == FetchIncidents /\ error' = {}

NextFixed == FetchIncidentsOk

SpecFixed == InitFixed /\ [][NextFixed]_vars /\ WF_vars(FetchIncidentsOk)

(* C11: no incident is lost across polls.  Once a successful poll has      *)
(* started from a watermark (the first-fetch time for the first poll of    *)
(* the series), every vendor incident with a creationDate later than that  *)
(* watermark is eventually delivered to the host, whatever the fetch limit *)
(* cut off.                                                                 *)
C11_NoIncidentLost ==
    \A i \in IncidentIds :
        (FetchOk /\ vendor[i] > last_update_time) ~> (created[i] >= 1)

----------------------------------------------------------------------------
(* pagination *)

MaxList == 4

(* an optional argument: None, or the number it holds *)
None == <<>>
Some(n) == <<n>>

(* Python's list[start:end]: a negative bound counts from the end of the   *)
(* list, and both bounds are clipped to the list                            *)
slice_index(x, n) ==
    IF x < 0 THEN (IF x + n < 0 THEN 0 ELSE x + n) ELSE (IF x > n THEN n ELSE x)

list_slice(list, start, end) ==
    LET a == slice_index(start, Len(list))
        b == slice_index(end, Len(list))
    IN IF a >= b THEN <<>> ELSE [k \in 1 .. (b - a) |-> list[a + k]]

PageNumberError == {"Chosen page number must be greater than 0"}

(* variant: the page starts one page too far *)
page_starting_one_page_late(limit, page, page_size, incidents_list) ==
    IF page # None /\ page_size # None
    THEN IF page[1] <= 0
         THEN [error |-> PageNumberError, result |-> <<>>]
         ELSE [error |-> {},
               result |-> list_slice(incidents_list, page[1] * page_size[1],
                                     (page[1] + 1) * page_size[1])]
    ELSE [error |-> {},
          result |-> list_slice(incidents_list, 0,
                                IF limit # None /\ limit[1] # 0 THEN limit[1]
                                ELSE MAX_PAGE_SIZE)]

get_incidents_of_current_page(limit, page, page_size, incidents_list) ==
    IF page # None /\ page_size # None
    THEN IF page[1] <= 0
         THEN [error |-> PageNumberError, result |-> <<>>]
         ELSE [error |-> {},
               result |-> list_slice(incidents_list, (page[1] - 1) * page_size[1],
                                     page[1] * page_size[1])]
    ELSE [error |-> {},
          result |-> list_slice(incidents_list, 0,
                                IF limit # None /\ limit[1] # 0 THEN limit[1]
                                ELSE MAX_PAGE_SIZE)]

(* the arguments the function is applied to: every argument missing, zero, *)
(* negative or positive, on lists shorter and longer than MAX_PAGE_SIZE    *)
OptionalNumbers == {None} \cup {Some(n) : n \in -1 .. MaxList}
Limits == OptionalNumbers \cup {Some(MAX_PAGE_SIZE)}
Lists == {[k \in 1 .. n |-> k] : n \in (0 .. MaxList) \cup {MAX_PAGE_SIZE + 1}}

InitPage ==
    /\ params = [first_fetch |-> Empty, max_fetch |-> <<"1">>, isFetch |-> FALSE]
    /\ vendor = [i \in IncidentIds |-> 0]
    /\ last_run = {}
    /\ created = [i \in IncidentIds |-> 0]
    /\ command = "none"
    /\ last_update_time = 0
    /\ requests = <<>>
    /\ incidents = <<>>
    /\ error = {}
    /\ patched = <<>>
    /\ demisto_args \in [limit : Limits, page : OptionalNumbers, page_size : OptionalNumbers]
    /\ response \in Lists
    /\ returned = <<>>
    /\ NoHex

(* get_incidents_of_current_page applied to the arguments and the list *)
GetIncidentsOfCurrentPage ==
    /\ command = "none"
    /\ LET r == get_incidents_of_current_page(demisto_args.limit, demisto_args.page,
                                              demisto_args.page_size, response)
       IN /\ command' = "get_incidents_of_current_page"
          /\ returned' = r.result
          /\ error' = r.error
    /\ UNCHANGED <<params, vendor, last_run, created, last_update_time, response, requests,
                   incidents, cmd_vars, hex_vars>>

NextPage == GetIncidentsOfCurrentPage

SpecPage == InitPage /\ [][NextPage]_vars

(* the elements of list at the zero-based positions from..(to - 1), in order *)
Positions(list, from, to) ==
    LET P == {p \in 0 .. (Len(list) - 1) : from <= p /\ p < to}
    IN [k \in 1 .. Cardinality(P) |-> list[(IF from < 0 THEN 0 ELSE from) + k]]

Paged == command = "get_incidents_of_current_page"
BothGiven == demisto_args.page # None /\ demisto_args.page_size # None
EffectiveLimit ==
    IF demisto_args.limit = None \/ demisto_args.limit = Some(0) THEN MAX_PAGE_SIZE
    ELSE demisto_args.limit[1]

PageSlice ==
    IF BothGiven
    THEN IF demisto_args.page[1] <= 0
         THEN error = PageNumberError
         ELSE /\ error = {}
              /\ returned = Positions(response,
                                      (demisto_args.page[1] - 1) * demisto_args.page_size[1],
                                      demisto_args.page[1] * demisto_args.page_size[1])
    ELSE /\ error = {}
         /\ returned = Positions(response, 0, EffectiveLimit)

(* C12 as claimed: with page and page_size given the function raises for   *)
(* page <= 0 and otherwise returns exactly the elements at the zero-based  *)
(* positions (page-1)*page_size .. page*page_size - 1, in order; with one  *)
(* of them missing it returns the first limit elements, 50 for a missing   *)
(* or zero limit.                                                           *)
C12_Original == Paged => PageSlice

(* C12 amended: as claimed for a page_size that is not negative (both      *)
(* given) and for a limit that is not negative (one of them missing).      *)
C12_PageSlice ==
    (/\ Paged
     /\ BothGiven /\ demisto_args.page[1] > 0 => demisto_args.page_size[1] >= 0
     /\ ~BothGiven /\ demisto_args.limit # None => demisto_args.limit[1] >= 0)
    => PageSlice

(* the second page of two elements of a longer list *)
C12_Witness ==
    /\ Paged
    /\ demisto_args.page = Some(2)
    /\ demisto_args.page_size = Some(2)
    /\ Len(response) = MAX_PAGE_SIZE + 1
    /\ returned = <<3, 4>>

----------------------------------------------------------------------------
(* symantec-dlp-list-incidents *)

(* args.get(name, default) followed by arg_to_number *)
arg_or_default(value, default) == IF value = None THEN default ELSE value[1]

(* list_incidents_command without filter arguments: vendor_list is the     *)
(* answer to the list request                                               *)
list_incidents_command(http, vendor_list, cmd_args) ==
    LET limit == arg_or_default(cmd_args.limit, MAX_PAGE_SIZE)
        page == arg_or_default(cmd_args.page, 1)
        page_size == cmd_args.page_size
        data == get_incidents_request(0, limit * page, FALSE)
        issued == <<Request("incidents", 0, data, http[ListKey])>>
        current == get_incidents_of_current_page(Some(limit), Some(page), page_size,
                                                 vendor_list)
    IN IF http[ListKey] # {}
       THEN [requests |-> issued, error |-> http[ListKey], result |-> <<>>]
       ELSE [requests |-> issued, error |-> current.error, result |-> current.result]

(* the vendor's incident list, in the order the vendor keeps it: the list  *)
(* request of this command names no order, and the order is taken to be    *)
(* the same on every request (by incidentId)                                *)
VendorList ==
    LET ids == {i \in IncidentIds : vendor[i] # 0}
        rank(i) == Cardinality({j \in ids : j <= i})
    IN [k \in 1 .. Cardinality(ids) |->
          LET i == CHOOSE j \in ids : rank(j) = k
          IN [incidentId |-> i, creationDate |-> vendor[i]]]

(* the vendor's answer to a list request without filter: the first         *)
(* data.limit records of its list                                           *)
ListAnswer(data) == list_slice(VendorList, 0, IF data.limit < 0 THEN 0 ELSE data.limit)

InitList ==
    /\ params = [first_fetch |-> Empty, max_fetch |-> <<"1">>, isFetch |-> FALSE]
    /\ vendor \in [IncidentIds -> {0, 1}]
    /\ last_run = {}
    /\ created = [i \in IncidentIds |-> 0]
    /\ command = "none"
    /\ last_update_time = 0
    /\ response = <<>>
    /\ requests = <<>>
    /\ incidents = <<>>
    /\ error = {}
    /\ patched = <<>>
    /\ demisto_args \in [limit : OptionalNumbers, page : OptionalNumbers,
                         page_size : OptionalNumbers]
    /\ returned = <<>>
    /\ NoHex

(* main, command symantec-dlp-list-incidents (lines 901-902 and 915-917) *)
ListIncidents ==
    /\ command = "none"
    /\ int_literal(params.max_fetch)
    /\ LET limit == arg_or_default(demisto_args.limit, MAX_PAGE_SIZE)
           page == arg_or_default(demisto_args.page, 1)
           vendor_list == ListAnswer(get_incidents_request(0, limit * page, FALSE))
       IN \E http \in {AllOk} \cup ListFailPlans :
            LET r == list_incidents_command(http, vendor_list, demisto_args)
            IN /\ command' = "symantec-dlp-list-incidents"
               /\ response' = IF http[ListKey] = {} THEN vendor_list ELSE <<>>
               /\ requests' = r.requests
               /\ error' = r.error
               /\ returned' = r.result
    /\ UNCHANGED <<params, vendor, last_run, created, last_update_time, incidents,
                   cmd_vars, hex_vars>>

NextList == ListIncidents

SpecList == InitList /\ [][NextList]_vars

Listed == command = "symantec-dlp-list-incidents"

(* C13: for a limit >= 1 (or the default), a page p >= 1 (or the default   *)
(* 1) and a page_size s >= 1, a list command whose request succeeds        *)
(* returns the incidents at the positions (p-1)*s+1 .. p*s of the vendor's *)
(* incident list, fewer only when the vendor has fewer.                    *)
C13_ListReturnsRequestedPage ==
    (/\ Listed
     /\ requests[1].outcome = {}
     /\ arg_or_default(demisto_args.limit, MAX_PAGE_SIZE) >= 1
     /\ arg_or_default(demisto_args.page, 1) >= 1
     /\ demisto_args.page_size # None
     /\ demisto_args.page_size[1] >= 1)
    => /\ error = {}
       /\ returned = Positions(VendorList,
                        (arg_or_default(demisto_args.page, 1) - 1) * demisto_args.page_size[1],
                        arg_or_default(demisto_args.page, 1) * demisto_args.page_size[1])

----------------------------------------------------------------------------
(* the fetch limit *)

(* max_fetch as the instance may be configured: integers below, at and     *)
(* above MAX_PAGE_SIZE, zero, a negative integer, and strings that int()   *)
(* rejects                                                                  *)
MaxFetchTexts ==
    MaxFetchValues \cup {<<"0">>, <<"-", "1">>, <<"5", "0">>, <<"a">>, <<>>, <<"1", ".", "5">>}

InitLimit ==
    /\ params \in [first_fetch : FetchTimes, max_fetch : MaxFetchTexts, isFetch : {TRUE}]
    /\ vendor \in [IncidentIds -> 0 .. MaxTime]
    /\ last_run \in LastRuns
    /\ created = [i \in IncidentIds |-> 0]
    /\ NoCommand
    /\ NoHex

FetchIncidentsOnce ==
    /\ command = "none"
    /\ FetchIncidents

(* main with a max_fetch that int() rejects (lines 873-878 and 915-917):   *)
(* the exception is raised before the client is built and before the       *)
(* command is looked at                                                     *)
InvalidFetchLimit ==
    /\ command = "none"
    /\ ~int_literal(params.max_fetch)
    /\ command' = "fetch-incidents"
    /\ error' = FetchLimitError
    /\ last_update_time' = 0
    /\ response' = <<>>
    /\ requests' = <<>>
    /\ incidents' = <<>>
    /\ returned' = ""
    /\ UNCHANGED <<params, vendor, last_run, created, cmd_vars, hex_vars>>

NextLimit == FetchIncidentsOnce \/ InvalidFetchLimit

SpecLimit == InitLimit /\ [][NextLimit]_vars

Min(a, b) == IF a < b THEN a ELSE b

(* C14: for an integer max_fetch the limit of the list request of a poll   *)
(* is min(max_fetch, MAX_PAGE_SIZE), so it never exceeds MAX_PAGE_SIZE,    *)
(* and the poll emits at most as many incidents as the vendor returned     *)
(* under that limit; for a max_fetch that is not an integer the poll fails *)
(* with 'Value for fetch limit must be an integer.' and issues no request. *)
C14_FetchLimitCapped ==
    command = "fetch-incidents" =>
       IF int_literal(params.max_fetch)
       THEN /\ requests # <<>>
            /\ requests[1].request = "incidents"
            /\ requests[1].data.limit = Min(int(params.max_fetch), MAX_PAGE_SIZE)
            /\ requests[1].data.limit <= MAX_PAGE_SIZE
            /\ Len(incidents) <= Len(response)
            /\ Len(incidents) <= MAX_PAGE_SIZE
            /\ requests[1].data.limit >= 0 => Len(response) <= requests[1].data.limit
       ELSE /\ error = FetchLimitError
            /\ requests = <<>>
            /\ incidents = <<>>

(* a poll configured with max_fetch 51 asked for 50 records and emitted    *)
(* incidents                                                                *)
C14_Witness ==
    /\ FetchOk
    /\ params.max_fetch = <<"5", "1">>
    /\ requests[1].data.limit = MAX_PAGE_SIZE
    /\ incidents # <<>>

----------------------------------------------------------------------------
(* the order of the emitted incidents *)

(* the incidents of the poll as the loop collected them, before the sort *)
Collected ==
    fetch_loop(response, AllOk, 1,
               [last_update_time |-> last_update_time, incidents |-> <<>>,
                requests |-> <<>>, error |-> {}]).incidents

Occurrences(list, x) == Cardinality({k \in 1 .. Len(list) : list[k] = x})

(* C15: a successful poll hands over its incidents in ascending order of   *)
(* incident ID, and they are the incidents the loop collected, none        *)
(* dropped and none duplicated.                                             *)
C15_SortedByIncidentId ==
    FetchOk =>
       /\ \A a, b \in 1 .. Len(incidents) :
             a < b => incidents[a].rawJSON.ID < incidents[b].rawJSON.ID
       /\ Len(incidents) = Len(Collected)
       /\ \A k \in 1 .. Len(Collected) :
             Occurrences(incidents, Collected[k]) = Occurrences(Collected, Collected[k])

----------------------------------------------------------------------------
(* the persisted state under test-module *)

(* C16: a run of test-module leaves the last run as it was and hands no    *)
(* incident to the host, whatever the vendor returns: the fetch probe runs *)
(* with is_test set and never calls setLastRun.                             *)
C16_TestRunKeepsLastRun ==
    [][command' = "test-module" =>
          /\ last_run' = last_run
          /\ created' = created
          /\ incidents' = <<>>]_vars

(* a test run with isFetch set that processed records later than the       *)
(* stored watermark and reported ok                                         *)
C16_Witness ==
    /\ command = "test-module"
    /\ params.isFetch
    /\ returned = "ok"
    /\ Len(requests) > 1
    /\ last_run # {}
    /\ response[Len(response)].creationDate > Stored

----------------------------------------------------------------------------
(* symantec-dlp-update-incident *)

UPDATE_INCIDENT_SEVERITY_MAPPING ==
    [severity \in {"Info", "Low", "Medium", "High"} |->
        CASE severity = "Info" -> "INFO"
          [] severity = "Low" -> "LOW"
          [] severity = "Medium" -> "MEDIUM"
          [] severity = "High" -> "HIGH"]

IncidentIdsError == {"Incident IDs must be integers."}
SeverityKeyError == {"KeyError"}
AttributeFormatError ==
    {"Error: custom_attributes argument format is {columnIndex}:{newValue}. E.g: 1:test"}
AttributeIndexError == {"Error: The attribute index must be an integer."}

(* Python's text.split(sep) for a one-character separator *)
RECURSIVE split(_, _)
split(text, sep) ==
    IF \A k \in 1 .. Len(text) : text[k] # sep THEN <<text>>
    ELSE LET k == CHOOSE j \in 1 .. Len(text) :
                     text[j] = sep /\ \A i \in 1 .. (j - 1) : text[i] # sep
         IN <<SubSeq(text, 1, k - 1)>> \o split(SubSeq(text, k + 1, Len(text)), sep)

(* build_custom_attributes_update: the exception of the first attribute    *)
(* that is rejected, or the list of the attributes                          *)
RECURSIVE build_custom_attributes_update(_)
build_custom_attributes_update(custom_attributes) ==
    IF custom_attributes = <<>> THEN [error |-> {}, list |-> <<>>]
    ELSE LET splitted_att == split(Head(custom_attributes), ":")
         IN IF Len(splitted_att) # 2
            THEN [error |-> AttributeFormatError, list |-> <<>>]
            ELSE IF ~isdigit(splitted_att[1])
            THEN [error |-> AttributeIndexError, list |-> <<>>]
            ELSE LET rest == build_custom_attributes_update(Tail(custom_attributes))
                 IN IF rest.error # {} THEN rest
                    ELSE [error |-> {},
                          list |-> <<[columnIndex |-> int(splitted_att[1]),
                                      value |-> splitted_att[2]]>> \o rest.list]

create_update_body(incident_ids, severity, custom_attributes) ==
    LET custom_attributes_list == build_custom_attributes_update(custom_attributes)
    IN [error |-> custom_attributes_list.error,
        data |-> [incidentIds |-> incident_ids, severity |-> severity,
                  incidentCustomAttributes |-> custom_attributes_list.list]]

PatchRequest(update_body, outcome) ==
    [request |-> "update", incident_id |-> 0, data |-> update_body, outcome |-> outcome]

(* variant: the request is sent before the custom attributes are checked *)
update_incident_command_patching_first(outcome, cmd_args) ==
    IF \E k \in 1 .. Len(cmd_args.incident_ids) : ~isdigit(cmd_args.incident_ids[k])
    THEN [requests |-> <<>>, error |-> IncidentIdsError, applied |-> <<>>]
    ELSE IF cmd_args.severity # "" /\ cmd_args.severity \notin DOMAIN UPDATE_INCIDENT_SEVERITY_MAPPING
    THEN [requests |-> <<>>, error |-> SeverityKeyError, applied |-> <<>>]
    ELSE
      LET severity == IF cmd_args.severity # ""
                      THEN UPDATE_INCIDENT_SEVERITY_MAPPING[cmd_args.severity] ELSE ""
          update_body == create_update_body(cmd_args.incident_ids, severity,
                                            cmd_args.custom_attributes)
      IN [requests |-> <<PatchRequest(update_body.data, outcome)>>,
          error |-> IF outcome # {} THEN outcome ELSE update_body.error,
          applied |-> IF outcome = {} THEN <<update_body.data>> ELSE <<>>]

(* update_incident_command: outcome is the outcome of the PATCH request,   *)
(* applied the update bodies the vendor accepted                            *)
update_incident_command(outcome, cmd_args) ==
    IF \E k \in 1 .. Len(cmd_args.incident_ids) : ~isdigit(cmd_args.incident_ids[k])
    THEN [requests |-> <<>>, error |-> IncidentIdsError, applied |-> <<>>]
    ELSE IF cmd_args.severity # "" /\ cmd_args.severity \notin DOMAIN UPDATE_INCIDENT_SEVERITY_MAPPING
    THEN [requests |-> <<>>, error |-> SeverityKeyError, applied |-> <<>>]
    ELSE
      LET severity == IF cmd_args.severity # ""
                      THEN UPDATE_INCIDENT_SEVERITY_MAPPING[cmd_args.severity] ELSE ""
          update_body == create_update_body(cmd_args.incident_ids, severity,
                                            cmd_args.custom_attributes)
      IN IF update_body.error # {}
         THEN [requests |-> <<>>, error |-> update_body.error, applied |-> <<>>]
         ELSE [requests |-> <<PatchRequest(update_body.data, outcome)>>,
               error |-> outcome,
               applied |-> IF outcome = {} THEN <<update_body.data>> ELSE <<>>]

(* the arguments of the command: lists of incident IDs with and without an *)
(* ID that is not a digit string, every severity of the mapping and two    *)
(* outside it, well-formed and malformed custom attributes                  *)
IncidentIdLists ==
    {<<>>, <<<<"9">>>>, <<<<"9">>, <<"1", "0">>>>, <<<<"9", "a">>>>,
     <<<<"9">>, <<"-", "1">>>>, <<<<>>>>}
Severities == {"", "Info", "Low", "Medium", "High", "Critical", "high"}
CustomAttributeLists ==
    {<<>>, <<<<"1", ":", "t">>>>, <<<<"1", ":", "t">>, <<"2", ":">>>>,
     <<<<"1">>>>, <<<<"a", ":", "t">>>>, <<<<":", "t">>>>,
     <<<<"1", ":", "t">>, <<"1", ":", "t", ":", "u">>>>}

InitUpdate ==
    /\ params = [first_fetch |-> Empty, max_fetch |-> <<"1">>, isFetch |-> FALSE]
    /\ vendor \in [IncidentIds -> {0, 1}]
    /\ last_run = {}
    /\ created = [i \in IncidentIds |-> 0]
    /\ command = "none"
    /\ last_update_time = 0
    /\ response = <<>>
    /\ requests = <<>>
    /\ incidents = <<>>
    /\ returned = ""
    /\ error = {}
    /\ patched = <<>>
    /\ demisto_args \in [incident_ids : IncidentIdLists, severity : Severities,
                         custom_attributes : CustomAttributeLists]
    /\ NoHex

(* main, command symantec-dlp-update-incident (lines 905-906 and 915-917) *)
UpdateIncident ==
    /\ command = "none"
    /\ int_literal(params.max_fetch)
    /\ \E outcome \in {{}} \cup Errors :
         LET r == update_incident_command(outcome, demisto_args)
         IN /\ command' = "symantec-dlp-update-incident"
            /\ requests' = r.requests
            /\ error' = r.error
            /\ returned' = IF r.error = {} THEN "Symantec DLP incidents were updated" ELSE ""
            /\ patched' = patched \o r.applied
    /\ UNCHANGED <<params, vendor, last_run, created, last_update_time, response, incidents,
                   demisto_args, hex_vars>>

NextUpdate == UpdateIncident

SpecUpdate == InitUpdate /\ [][NextUpdate]_vars

(* an attribute of the form {columnIndex}:{newValue}: one colon, and       *)
(* digits before it                                                         *)
WellFormedAttribute(text) ==
    /\ Cardinality({k \in 1 .. Len(text) : text[k] = ":"}) = 1
    /\ \E k \in 1 .. Len(text) :
          /\ text[k] = ":"
          /\ k > 1
          /\ \A j \in 1 .. (k - 1) : IsDigitChar(text[j])

DigitIds ==
    \A k \in 1 .. Len(demisto_args.incident_ids) :
       /\ demisto_args.incident_ids[k] # <<>>
       /\ \A j \in 1 .. Len(demisto_args.incident_ids[k]) :
             IsDigitChar(demisto_args.incident_ids[k][j])

ValidUpdate ==
    /\ DigitIds
    /\ demisto_args.severity \in {"", "Info", "Low", "Medium", "High"}
    /\ \A k \in 1 .. Len(demisto_args.custom_attributes) :
          WellFormedAttribute(demisto_args.custom_attributes[k])

(* C17: an update command whose incident IDs are not all digit strings     *)
(* fails with 'Incident IDs must be integers.', and one whose IDs, severity *)
(* or custom attributes are invalid fails without a PATCH request and      *)
(* leaves the vendor's incidents as they were; a valid one issues exactly  *)
(* one PATCH request.                                                       *)
C17_UpdateValidatesBeforeWrite ==
    [][command' = "symantec-dlp-update-incident" =>
          /\ ~DigitIds => error' = IncidentIdsError
          /\ ~ValidUpdate => error' # {} /\ requests' = <<>> /\ patched' = patched
          /\ ValidUpdate => /\ Len(requests') = 1
                            /\ requests'[1].request = "update"
                            /\ requests'[1].data.incidentIds = demisto_args.incident_ids]_vars

(* a command with valid incident IDs and severity was rejected for its     *)
(* second custom attribute, after a well-formed first one                  *)
C17_Witness ==
    /\ command = "symantec-dlp-update-incident"
    /\ demisto_args.incident_ids = <<<<"9">>, <<"1", "0">>>>
    /\ demisto_args.severity = "High"
    /\ Len(demisto_args.custom_attributes) = 2
    /\ error = AttributeFormatError
    /\ requests = <<>>
    /\ patched = <<>>
====
